---- MODULE Spec2Model ----
(***************************************************************************)
(* A model of httptest.py: the TestServer lifecycle controller, the runner *)
(* thread started by start() (_makeserver / _TestWSGIServer.serve_forever),*)
(* the stop pipe, the log queue filled by _logmiddleware and drained by    *)
(* log(), and the with-statement protocol (__enter__ / __exit__).          *)
(*                                                                         *)
(* One caller thread issues the calls one at a time (the calls of one      *)
(* controller must be serialized by the caller); the runner threads, the   *)
(* HTTP clients and the other processes that bind ports run concurrently   *)
(* with it.  start() and stop() block on the runner with a timeout, so     *)
(* each is modelled by an entry step and by the two ways its wait can end. *)
(***************************************************************************)
EXTENDS Integers, Sequences, FiniteSets, TLC

\* ------------------------------------------------------------------ bounds
\* runner threads (and stop pipes) created over a whole run
MaxThreads == 2
\* requests sent by the clients over a whole run
MaxReq == 2
\* ports at the low end of the probe range that other processes may hold
MaxEnvPorts == 2
\* the headers a handler passes to start_response
MaxHdrs == 2
\* the calls of write() a handler makes
MaxWrites == 1
\* the chunks a handler returns
MaxOut == 2

\* ------------------------------------------------------- program constants
\* startport=30059, the default of TestServer.__init__
StartPort == 30059
\* range(self._startport, self._startport + 100)
PortRange == 100
\* Python's None, for _httpd and _stoppipe (thread and pipe ids start at 1)
None == 0
\* host='localhost'
Host == "localhost"
\* the two servers of the nesting doctest, both with the default start port
Ctrl == {"server1", "server2"}
\* the server of the other doctests
Single == {"server1"}

Ports == StartPort .. (StartPort + PortRange - 1)
EnvPorts == StartPort .. (StartPort + MaxEnvPorts - 1)

VARIABLES
    httpd,      \* [Ctrl -> thread id or None]      self._httpd
    port,       \* [Ctrl -> port]                   self._port
    stoppipe,   \* [Ctrl -> pipe id or None]        self._stoppipe
    log,        \* [Ctrl -> Seq(exchange)]          self._log
    logqueue,   \* [Ctrl -> Seq(exchange)]          self._logqueue
    threads,    \* Seq of runner threads, in creation order
    pipes,      \* Seq of pipes made by os.pipe(), in creation order
    envBound,   \* ports bound by other processes
    reqs,       \* Seq of the requests the clients sent, in send order
    cpc,        \* the call the caller is inside, and where
    ret,        \* the last call that returned or raised
    scopes,     \* the with-blocks the caller is inside, innermost last
    exc,        \* an exception is propagating through the with-blocks
    mw          \* one invocation of the _logmiddleware wrapper

vars == <<httpd, port, stoppipe, log, logqueue, threads, pipes, envBound,
          reqs, cpc, ret, scopes, exc, mw>>

Idle == [op |-> "idle", ctrl |-> "none"]

Ok == "ok"
StartTimedOutMsg == "RuntimeError: Timed out while starting"
StopTimedOutMsg == "RuntimeError: Timed out while stopping"
SelectErrorMsg == "OSError: select failed"
BadFdMsg == "OSError: Bad file descriptor"

\* ------------------------------------------------------------ the sockets
\* a runner owns a bound, listening socket from the WSGIServer constructor
\* until server_close()
Listening(t) == threads[t].pc \in {"bound", "select", "handle", "respond"}

\* Thread.is_alive()
IsAlive(t) == threads[t].pc # "dead"

ThreadIds == 1 .. Len(threads)

Busy == envBound \cup {threads[t].port : t \in {u \in ThreadIds : Listening(u)}}

\* _portavailable(host, port): the trial bind fails with EADDRINUSE
portavailable(p, busy) == p \notin busy

\* the probe loop without its break: the loop variable ends on the last port
ProbeLoopNoBreak(p, busy) == StartPort + PortRange - 1

\* the probe loop of start(): the first available port, or, when the loop
\* runs to its end without a break, the last value of the loop variable
RECURSIVE ProbeLoop(_, _)
ProbeLoop(p, busy) ==
    IF portavailable(p, busy) THEN p
    ELSE IF p + 1 < StartPort + PortRange THEN ProbeLoop(p + 1, busy)
    ELSE p

\* url(): 'http://%s:%s/' % (self._host, self._port)
url(c) == <<"http://", Host, ":", port[c], "/">>

\* ------------------------------------------------- the logging middleware
\* an attribute that is None is <<>>, an attribute set to v is <<v>>
NoneAttr == <<>>

\* TestRequest() and TestResponse() as the wrapper creates them
EmptyRequest == [method |-> NoneAttr, protocol |-> NoneAttr,
                 address |-> NoneAttr, path |-> NoneAttr,
                 headers |-> NoneAttr, body |-> NoneAttr]

EmptyResponse == [status |-> NoneAttr, headers |-> NoneAttr, body |-> NoneAttr]

\* a dict: a function from its keys
EmptyDict == [k \in {} |-> <<>>]

Put(d, k, v) == [x \in DOMAIN d \cup {k} |-> IF x = k THEN v ELSE d[x]]

\* the sequences over S of length at most n
SeqsUpTo(S, n) == UNION {[1 .. k -> S] : k \in 0 .. n}

\* the environ dicts the transport calls the wrapper with; strings are
\* sequences of characters, an absent or empty entry is <<>>
Environs == [script : {<<>>, <<"/", "a">>},
             pathinfo : {<<>>, <<"/", "f">>},
             query : {<<>>, <<"x">>},
             rawlength : {<<>>, <<"2">>, <<"z">>},
             input : {<<104, 105, 33>>}]

Digits == <<"0", "1", "2", "3", "4", "5", "6", "7", "8", "9">>

\* str.isdigit()
IsDigit(s) == s # <<>> /\ \A i \in 1 .. Len(s) : \E d \in 1 .. 10 : Digits[d] = s[i]

DigitVal(ch) == (CHOOSE d \in 1 .. 10 : Digits[d] = ch) - 1

\* int() of a string of digits
RECURSIVE ToInt(_)
ToInt(s) ==
    IF s = <<>> THEN 0
    ELSE 10 * ToInt(SubSeq(s, 1, Len(s) - 1)) + DigitVal(s[Len(s)])

\* str() of a natural number
RECURSIVE Str(_)
Str(n) == IF n < 10 THEN <<Digits[n + 1]>>
          ELSE Str(n \div 10) \o <<Digits[(n % 10) + 1]>>

\* stream.read(n)
Read(stream, n) == SubSeq(stream, 1, IF n < Len(stream) THEN n ELSE Len(stream))

\* request.path
RequestPath(e) ==
    LET path == IF e.script = <<>>
                THEN <<"/">> \o (IF e.pathinfo = <<>> THEN <<>> ELSE Tail(e.pathinfo))
                ELSE e.script \o e.pathinfo
    IN  IF e.query # <<>> THEN path \o <<"?">> \o e.query ELSE path

\* request.body
RequestBody(e) ==
    LET length == IF e.rawlength # <<>> /\ IsDigit(e.rawlength)
                  THEN ToInt(e.rawlength) ELSE -1
    IN  IF length > 0 THEN <<Read(e.input, length)>> ELSE NoneAttr

\* request.headers; the transport's environ carries one HTTP_ entry
RequestHeaders(e) ==
    LET d == IF e.rawlength # <<>>
             THEN Put(EmptyDict, "content-length", e.rawlength) ELSE EmptyDict
    IN  Put(d, "x-a", <<"1">>)

\* the request the wrapper records from an environ
BuildRequest(e) ==
    [method |-> <<"GET">>, protocol |-> <<"HTTP/1.1">>,
     address |-> <<"127.0.0.1">>, path |-> <<RequestPath(e)>>,
     headers |-> <<RequestHeaders(e)>>, body |-> RequestBody(e)]

\* the (name, value) pairs a handler passes to start_response; a value is a
\* sequence of tokens
HdrPairs == {<<"Date", <<"d0">>>>, <<"Server", <<"s0">>>>,
             <<"Content-Length", <<"9">>>>,
             <<"X-A", <<"v1">>>>, <<"x-a", <<"v2">>>>}

Statuses == {"200 OK", "204 No Content"}

\* the byte strings a handler writes or returns
Chunks == {<<>>, <<104, 105>>}

\* the exceptions a handler raises
AppErrors == {"ValueError"}

\* str.lower() on the header names
Lower(k) ==
    CASE k = "Date" -> "date"
      [] k = "Server" -> "server"
      [] k = "Content-Length" -> "content-length"
      [] k = "X-A" -> "x-a"
      [] OTHER -> k

\* format_date_time(time.time()) and the server name
Now == <<"now">>
ServerName == <<"httptest">>

\* the loop over the handler's headers: names lower-cased, values of a
\* repeated name joined with a comma
RECURSIVE FoldHeaders(_, _)
FoldHeaders(hs, d) ==
    IF Len(hs) = 0 THEN d
    ELSE LET k == Lower(hs[1][1])
             v == hs[1][2]
         IN  FoldHeaders(Tail(hs),
                 IF k \in DOMAIN d THEN Put(d, k, d[k] \o <<",">> \o v)
                 ELSE Put(d, k, v))

\* b''.join(chunks)
RECURSIVE Join(_)
Join(chunks) == IF Len(chunks) = 0 THEN <<>> ELSE chunks[1] \o Join(Tail(chunks))

\* the wrapper before it is called
MwIdle == [pc |-> "idle", request |-> EmptyRequest, response |-> EmptyResponse,
           given |-> <<>>, sent |-> <<>>, resheaders |-> EmptyDict,
           written |-> <<>>, out |-> NoneAttr, apperr |-> "", exc |-> ""]

\* ------------------------------------------------------------------- Init
Init ==
    /\ httpd = [c \in Ctrl |-> None]
    /\ port = [c \in Ctrl |-> StartPort]
    /\ stoppipe = [c \in Ctrl |-> None]
    /\ log = [c \in Ctrl |-> <<>>]
    /\ logqueue = [c \in Ctrl |-> <<>>]
    /\ threads = <<>>
    /\ pipes = <<>>
    /\ envBound \in (SUBSET EnvPorts) \cup {Ports}
    /\ reqs = <<>>
    /\ cpc = Idle
    /\ ret = [op |-> "none", ctrl |-> "none", result |-> Ok]
    /\ scopes = <<>>
    /\ exc = FALSE
    /\ mw = MwIdle

\* ------------------------------------------------------- calls and returns
InScope(c) == \E i \in 1 .. Len(scopes) : scopes[i] = c

Top == scopes[Len(scopes)]

Pop(s) == SubSeq(s, 1, Len(s) - 1)

\* the caller is free to make a call: it is inside no call and no exception
\* is unwinding the with-blocks
CanCall == cpc = Idle /\ ~exc

\* a call ends with result res.  A with-block is entered when __enter__
\* returns and left when __exit__ ends; an exception raised inside a
\* with-block propagates to it (outside every with-block the test catches it).
Returned(op, c, res) ==
    /\ ret' = [op |-> op, ctrl |-> c, result |-> res]
    /\ cpc' = Idle
    /\ scopes' = IF op = "enter" /\ res = Ok THEN Append(scopes, c)
                 ELSE IF op = "exit" THEN Pop(scopes)
                 ELSE scopes
    /\ exc' = /\ scopes' # <<>>
              /\ \/ res # Ok
                 \/ op = "exit" /\ exc

\* ---------------------------------------------------------------- start()
\* the launch of a runner, with what else it does to the log
Launch(c, op, newlog) ==
    /\ Len(threads) < MaxThreads
    /\ LET p == ProbeLoop(StartPort, Busy)
           pid == Len(pipes) + 1
           tid == Len(threads) + 1
       IN /\ port' = [port EXCEPT ![c] = p]
          /\ pipes' = Append(pipes, [r |-> TRUE, w |-> TRUE, readable |-> FALSE])
          /\ stoppipe' = [stoppipe EXCEPT ![c] = pid]
          /\ threads' = Append(threads,
                 [ctrl |-> c, port |-> p, stopfd |-> pid, pc |-> "init",
                  ready |-> FALSE, sawstop |-> FALSE, conn |-> 0,
                  intr |-> FALSE, err |-> ""])
          /\ httpd' = [httpd EXCEPT ![c] = tid]
    /\ cpc' = [op |-> op, ctrl |-> c]
    /\ log' = newlog
    /\ UNCHANGED <<mw, logqueue, envBound, reqs, ret, scopes, exc>>

\* start() that begins every cycle with an empty log
StartLaunchResetsLog(c, op) == Launch(c, op, [log EXCEPT ![c] = <<>>])

\* start(), self._httpd is None: probe the ports, keep the port, make the
\* stop pipe, start the runner thread, and wait for its ready event
StartLaunch(c, op) ==
    /\ Len(threads) < MaxThreads
    /\ LET p == ProbeLoop(StartPort, Busy)
           pid == Len(pipes) + 1
           tid == Len(threads) + 1
       IN /\ port' = [port EXCEPT ![c] = p]
          /\ pipes' = Append(pipes, [r |-> TRUE, w |-> TRUE, readable |-> FALSE])
          /\ stoppipe' = [stoppipe EXCEPT ![c] = pid]
          /\ threads' = Append(threads,
                 [ctrl |-> c, port |-> p, stopfd |-> pid, pc |-> "init",
                  ready |-> FALSE, sawstop |-> FALSE, conn |-> 0,
                  intr |-> FALSE, err |-> ""])
          /\ httpd' = [httpd EXCEPT ![c] = tid]
    /\ cpc' = [op |-> op, ctrl |-> c]
    /\ UNCHANGED <<mw, log, logqueue, envBound, reqs, ret, scopes, exc>>

\* start(), self._httpd is not None: nothing to do
StartNoop(c, op) ==
    /\ Returned(op, c, Ok)
    /\ UNCHANGED <<mw, httpd, port, stoppipe, log, logqueue, threads, pipes,
                   envBound, reqs>>

\* start() without the test of self._httpd
StartBodyNoGuard(c, op) == StartLaunch(c, op)

\* the body of start(), called directly or by __enter__
StartBody(c, op) ==
    IF httpd[c] = None THEN StartLaunch(c, op) ELSE StartNoop(c, op)

InStart(c) == cpc.ctrl = c /\ cpc.op \in {"start", "enter"}

\* start.wait(_servertimeout) returns True: the runner has set the event
StartReady(c) ==
    /\ InStart(c)
    /\ threads[httpd[c]].ready
    /\ Returned(cpc.op, c, Ok)
    /\ UNCHANGED <<mw, httpd, port, stoppipe, log, logqueue, threads, pipes,
                   envBound, reqs>>

\* start.wait(_servertimeout) returns False: RuntimeError, nothing undone
StartTimedOut(c) ==
    /\ InStart(c)
    /\ ~threads[httpd[c]].ready
    /\ Returned(cpc.op, c, StartTimedOutMsg)
    /\ UNCHANGED <<mw, httpd, port, stoppipe, log, logqueue, threads, pipes,
                   envBound, reqs>>

\* ----------------------------------------------------------------- stop()
\* os.write(self._stoppipe[1], b's') can be done
PipeWritable(c) == stoppipe[c] # None /\ pipes[stoppipe[c]].w

\* stop(), self._httpd is not None: write the stop byte and join the runner
StopSignal(c, op) ==
    /\ IF PipeWritable(c)
       THEN /\ pipes' = [pipes EXCEPT ![stoppipe[c]].readable = TRUE]
            /\ cpc' = [op |-> op, ctrl |-> c]
            /\ UNCHANGED <<ret, scopes, exc>>
       ELSE /\ Returned(op, c, BadFdMsg)
            /\ UNCHANGED pipes
    /\ UNCHANGED <<mw, httpd, port, stoppipe, log, logqueue, threads, envBound, reqs>>

\* stop(), self._httpd is None: nothing to do
StopNoop(c, op) ==
    /\ Returned(op, c, Ok)
    /\ UNCHANGED <<mw, httpd, port, stoppipe, log, logqueue, threads, pipes,
                   envBound, reqs>>

\* the body of stop(), called directly or by __exit__
StopBody(c, op) ==
    IF httpd[c] # None THEN StopSignal(c, op) ELSE StopNoop(c, op)

InStop(c) == cpc.ctrl = c /\ cpc.op \in {"stop", "exit"}

\* stop() that closes the pipe and keeps the reference to the dead runner
StopJoinedKeepsThread(c) ==
    /\ InStop(c)
    /\ ~IsAlive(httpd[c])
    /\ pipes' = [pipes EXCEPT ![stoppipe[c]].r = FALSE,
                              ![stoppipe[c]].w = FALSE]
    /\ Returned(cpc.op, c, Ok)
    /\ UNCHANGED <<mw, httpd, stoppipe, port, log, logqueue, threads, envBound, reqs>>

\* stop() that also drains the queue into the log once the runner is joined
StopJoinedDrains(c) ==
    /\ InStop(c)
    /\ ~IsAlive(httpd[c])
    /\ httpd' = [httpd EXCEPT ![c] = None]
    /\ pipes' = [pipes EXCEPT ![stoppipe[c]].r = FALSE,
                              ![stoppipe[c]].w = FALSE]
    /\ stoppipe' = [stoppipe EXCEPT ![c] = None]
    /\ log' = [log EXCEPT ![c] = log[c] \o logqueue[c]]
    /\ logqueue' = [logqueue EXCEPT ![c] = <<>>]
    /\ Returned(cpc.op, c, Ok)
    /\ UNCHANGED <<mw, port, threads, envBound, reqs>>

\* stop() that forgets the joined runner and leaves its pipe as it is
StopJoinedKeepsPipe(c) ==
    /\ InStop(c)
    /\ ~IsAlive(httpd[c])
    /\ httpd' = [httpd EXCEPT ![c] = None]
    /\ Returned(cpc.op, c, Ok)
    /\ UNCHANGED <<mw, port, stoppipe, pipes, log, logqueue, threads, envBound, reqs>>

\* join() returned and the runner is not alive: forget it, close the pipe
StopJoined(c) ==
    /\ InStop(c)
    /\ ~IsAlive(httpd[c])
    /\ httpd' = [httpd EXCEPT ![c] = None]
    /\ pipes' = [pipes EXCEPT ![stoppipe[c]].r = FALSE,
                              ![stoppipe[c]].w = FALSE]
    /\ stoppipe' = [stoppipe EXCEPT ![c] = None]
    /\ Returned(cpc.op, c, Ok)
    /\ UNCHANGED <<mw, port, log, logqueue, threads, envBound, reqs>>

\* stop() that forgets the runner and its pipe when the join ran out
StopTimedOutForgets(c) ==
    /\ InStop(c)
    /\ IsAlive(httpd[c])
    /\ httpd' = [httpd EXCEPT ![c] = None]
    /\ stoppipe' = [stoppipe EXCEPT ![c] = None]
    /\ Returned(cpc.op, c, StopTimedOutMsg)
    /\ UNCHANGED <<mw, port, log, logqueue, threads, pipes, envBound, reqs>>

\* join(_servertimeout) ran out and the runner is alive: RuntimeError
StopTimedOut(c) ==
    /\ InStop(c)
    /\ IsAlive(httpd[c])
    /\ Returned(cpc.op, c, StopTimedOutMsg)
    /\ UNCHANGED <<mw, httpd, port, stoppipe, log, logqueue, threads, pipes,
                   envBound, reqs>>

\* ------------------------------------------------------------------ log()
\* log() that puts what it drains in front of the log
LogBodyLifo(c) ==
    /\ log' = [log EXCEPT ![c] = logqueue[c] \o log[c]]
    /\ logqueue' = [logqueue EXCEPT ![c] = <<>>]
    /\ Returned("log", c, Ok)
    /\ UNCHANGED <<mw, httpd, port, stoppipe, threads, pipes, envBound, reqs>>

\* log(): move everything on the queue to the end of self._log, return it
LogBody(c) ==
    /\ log' = [log EXCEPT ![c] = log[c] \o logqueue[c]]
    /\ logqueue' = [logqueue EXCEPT ![c] = <<>>]
    /\ Returned("log", c, Ok)
    /\ UNCHANGED <<mw, httpd, port, stoppipe, threads, pipes, envBound, reqs>>

\* ------------------------------------------------------- the caller's calls
Start(c) == CanCall /\ StartBody(c, "start")

Stop(c) == CanCall /\ StopBody(c, "stop")

Log(c) == CanCall /\ LogBody(c)

\* with server: __enter__ calls start()
Enter(c) == CanCall /\ ~InScope(c) /\ StartBody(c, "enter")

\* the innermost with-block ends, normally or by an exception passing
\* through it: __exit__ calls stop()
Exit == cpc = Idle /\ scopes # <<>> /\ StopBody(Top, "exit")

\* the body of a with-block raises
BodyRaise ==
    /\ CanCall
    /\ scopes # <<>>
    /\ exc' = TRUE
    /\ UNCHANGED <<mw, httpd, port, stoppipe, log, logqueue, threads, pipes,
                   envBound, reqs, cpc, ret, scopes>>

\* ------------------------------------------------------- the runner thread
SetThread(t, f, v) == [threads EXCEPT ![t] = [threads[t] EXCEPT ![f] = v]]

\* _makeserver: the _TestWSGIServer constructor binds and listens; a bind
\* error ends the thread
RunnerBind(t) ==
    /\ threads[t].pc = "init"
    /\ threads' = SetThread(t, "pc",
                     IF threads[t].port \in Busy THEN "dead" ELSE "bound")
    /\ UNCHANGED <<mw, httpd, port, stoppipe, log, logqueue, pipes, envBound,
                   reqs, cpc, ret, scopes, exc>>

\* _makeserver: set_app, then start.set(), then serve_forever()
RunnerReady(t) ==
    /\ threads[t].pc = "bound"
    /\ threads' = [threads EXCEPT ![t] =
                      [threads[t] EXCEPT !.ready = TRUE, !.pc = "select"]]
    /\ UNCHANGED <<mw, httpd, port, stoppipe, log, logqueue, pipes, envBound,
                   reqs, cpc, ret, scopes, exc>>

\* the connections waiting on the runner's listening socket
Pending(t) == {i \in 1 .. Len(reqs) :
                  reqs[i].status = "pending" /\ reqs[i].port = threads[t].port}

StopReadable(t) == pipes[threads[t].stopfd].readable

\* a serve loop that only ever looks at the listening socket
RunnerSelectIgnoresStop(t) ==
    /\ threads[t].pc = "select"
    /\ Pending(t) # {}
    /\ LET i == CHOOSE j \in Pending(t) : \A k \in Pending(t) : j <= k
       IN /\ threads' = [threads EXCEPT ![t] =
                [threads[t] EXCEPT !.pc = "handle", !.conn = i, !.intr = FALSE]]
          /\ reqs' = [reqs EXCEPT ![i].status = "accepted", ![i].by = t]
    /\ UNCHANGED <<mw, httpd, port, stoppipe, log, logqueue, pipes, envBound,
                   cpc, ret, scopes, exc>>

\* serve_forever: select returns the ready descriptors; a ready socket is
\* accepted (_handle_request_noblock), and the loop ends after it when the
\* stop descriptor was ready in the same select
RunnerSelect(t) ==
    /\ threads[t].pc = "select"
    /\ Pending(t) # {} \/ StopReadable(t)
    /\ IF Pending(t) # {}
       THEN LET i == CHOOSE j \in Pending(t) : \A k \in Pending(t) : j <= k
            IN /\ threads' = [threads EXCEPT ![t] =
                     [threads[t] EXCEPT !.pc = "handle", !.conn = i,
                                        !.sawstop = StopReadable(t),
                                        !.intr = FALSE]]
               /\ reqs' = [reqs EXCEPT ![i].status = "accepted", ![i].by = t]
       ELSE /\ threads' = [threads EXCEPT ![t] =
                     [threads[t] EXCEPT !.pc = "closing", !.sawstop = TRUE,
                                        !.intr = FALSE]]
            /\ UNCHANGED reqs
    /\ UNCHANGED <<mw, httpd, port, stoppipe, log, logqueue, pipes, envBound,
                   cpc, ret, scopes, exc>>

\* a serve loop that takes an interrupted select for the stop signal
RunnerEINTRStops(t) ==
    /\ threads[t].pc = "select"
    /\ threads' = [threads EXCEPT ![t] =
           [threads[t] EXCEPT !.pc = "closing", !.sawstop = TRUE]]
    /\ UNCHANGED <<mw, httpd, port, stoppipe, log, logqueue, pipes, envBound,
                   reqs, cpc, ret, scopes, exc>>

\* serve_forever: select is interrupted (EINTR): the error is dropped and
\* the same wait is made again
RunnerEINTR(t) ==
    /\ threads[t].pc = "select"
    /\ threads' = SetThread(t, "intr", TRUE)
    /\ UNCHANGED <<mw, httpd, port, stoppipe, log, logqueue, pipes, envBound,
                   reqs, cpc, ret, scopes, exc>>

\* serve_forever: select fails with another error: it is raised, and the
\* finally of _makeserver closes the server
RunnerSelectError(t) ==
    /\ threads[t].pc = "select"
    /\ threads' = [threads EXCEPT ![t] =
           [threads[t] EXCEPT !.pc = "closing", !.intr = FALSE,
                              !.err = SelectErrorMsg]]
    /\ UNCHANGED <<mw, httpd, port, stoppipe, log, logqueue, pipes, envBound,
                   reqs, cpc, ret, scopes, exc>>

\* _logmiddleware.wrapper: the app returns or raises; either way the
\* finally puts the exchange on the queue
RunnerApp(t) ==
    /\ threads[t].pc = "handle"
    /\ logqueue' = [logqueue EXCEPT ![threads[t].ctrl] =
           Append(@, [req |-> threads[t].conn, thread |-> t])]
    /\ threads' = SetThread(t, "pc", "respond")
    /\ UNCHANGED <<mw, httpd, port, stoppipe, log, pipes, envBound, reqs, cpc,
                   ret, scopes, exc>>

\* the request handler sends the response (or the error page) and closes
\* the connection; serve_forever then tests the stop descriptor
RunnerRespond(t) ==
    /\ threads[t].pc = "respond"
    /\ reqs' = [reqs EXCEPT ![threads[t].conn].status = "answered"]
    /\ threads' = [threads EXCEPT ![t] =
           [threads[t] EXCEPT !.conn = 0,
                !.pc = IF threads[t].sawstop THEN "closing" ELSE "select"]]
    /\ UNCHANGED <<mw, httpd, port, stoppipe, log, logqueue, pipes, envBound,
                   cpc, ret, scopes, exc>>

\* _makeserver, finally: httpd.server_close(); the thread ends.  The
\* connections still waiting on the socket are reset.
RunnerClose(t) ==
    /\ threads[t].pc = "closing"
    /\ threads' = SetThread(t, "pc", "dead")
    /\ reqs' = [i \in 1 .. Len(reqs) |->
                   IF i \in Pending(t)
                   THEN [reqs[i] EXCEPT !.status = "failed"] ELSE reqs[i]]
    /\ UNCHANGED <<mw, httpd, port, stoppipe, log, logqueue, pipes, envBound,
                   cpc, ret, scopes, exc>>

\* ------------------------------------------------------------ environment
\* a client sends a request to server.url(), one request after another:
\* the connection waits on the socket listening on that port
ClientSend(c) ==
    /\ Len(reqs) < MaxReq
    /\ reqs # <<>> => reqs[Len(reqs)].status \in {"answered", "failed"}
    /\ \E t \in ThreadIds : Listening(t) /\ threads[t].port = url(c)[4]
    /\ reqs' = Append(reqs, [url |-> c, port |-> url(c)[4],
                             status |-> "pending", by |-> 0])
    /\ UNCHANGED <<mw, httpd, port, stoppipe, log, logqueue, threads, pipes,
                   envBound, cpc, ret, scopes, exc>>

\* the race _portavailable leaves open: another process binds the port
\* after the probe released it and before the runner binds it
EnvRace(t) ==
    /\ threads[t].pc = "init"
    /\ threads[t].port \notin Busy
    /\ envBound' = envBound \cup {threads[t].port}
    /\ UNCHANGED <<mw, httpd, port, stoppipe, log, logqueue, threads, pipes,
                   reqs, cpc, ret, scopes, exc>>

\* ------------------------------------------- the wrapper around the handler
\* everything of the controller and the runners, which the wrapper leaves alone
MwFrame == UNCHANGED <<httpd, port, stoppipe, log, threads, pipes, envBound,
                       reqs, cpc, ret, scopes, exc>>

\* start_response has been called
MwStarted == mw.response.status # NoneAttr

\* the transport calls wrapper(environ, start_response): the request is
\* recorded from the environ and the handler is entered
MwCall(e) ==
    /\ mw.pc = "idle"
    /\ mw' = [mw EXCEPT !.pc = "app", !.request = BuildRequest(e)]
    /\ logqueue' = logqueue
    /\ MwFrame

\* the handler calls start_response(status, headers): the transport gets the
\* list object, the status and the folded headers are noted, and Date and
\* Server are appended to the same list when the handler left them out
MwStartResponse(status, hdrs) ==
    /\ mw.pc = "app"
    /\ ~MwStarted
    /\ LET d0 == FoldHeaders(hdrs, mw.resheaders)
           nodate == "date" \notin DOMAIN d0
           d1 == IF nodate THEN Put(d0, "date", Now) ELSE d0
           h1 == IF nodate THEN Append(hdrs, <<"Date", Now>>) ELSE hdrs
           noserver == "server" \notin DOMAIN d1
           d2 == IF noserver THEN Put(d1, "server", ServerName) ELSE d1
           h2 == IF noserver THEN Append(h1, <<"Server", ServerName>>) ELSE h1
       IN  mw' = [mw EXCEPT !.response.status = <<status>>,
                            !.given = hdrs,
                            !.sent = h2,
                            !.resheaders = d2]
    /\ logqueue' = logqueue
    /\ MwFrame

\* the handler calls the write callable it got from start_response
MwWrite(data) ==
    /\ mw.pc = "app"
    /\ MwStarted
    /\ Len(mw.written) < MaxWrites
    /\ mw' = [mw EXCEPT !.written = Append(@, data)]
    /\ logqueue' = logqueue
    /\ MwFrame

\* the handler returns its iterable: the body is joined, content-length is
\* noted when the handler did not set it, and the response gets its headers
\* and its body
MwAppReturn(out) ==
    /\ mw.pc = "app"
    /\ MwStarted
    /\ LET resbody == Join(mw.written) \o Join(out)
           d == IF "content-length" \in DOMAIN mw.resheaders THEN mw.resheaders
                ELSE Put(mw.resheaders, "content-length", Str(Len(resbody)))
       IN  mw' = [mw EXCEPT !.pc = "returning",
                            !.resheaders = d,
                            !.response.headers = <<d>>,
                            !.response.body = <<resbody>>,
                            !.out = <<out>>]
    /\ logqueue' = logqueue
    /\ MwFrame

\* the handler raises
MwAppRaise(e) ==
    /\ mw.pc = "app"
    /\ mw' = [mw EXCEPT !.pc = "raising", !.apperr = e]
    /\ logqueue' = logqueue
    /\ MwFrame

\* a finally clause that puts nothing when the handler raised
MwFinallyOnSuccess(c) ==
    /\ mw.pc \in {"returning", "raising"}
    /\ logqueue' = IF mw.pc = "returning"
                   THEN [logqueue EXCEPT ![c] =
                            Append(@, [request |-> mw.request, response |-> mw.response])]
                   ELSE logqueue
    /\ mw' = [mw EXCEPT !.pc = IF mw.pc = "returning" THEN "returned" ELSE "raised",
                        !.exc = mw.apperr]
    /\ MwFrame

\* the finally clause: the exchange is put on the queue, then the wrapper
\* returns the handler's iterable or lets the handler's exception go on
MwFinally(c) ==
    /\ mw.pc \in {"returning", "raising"}
    /\ logqueue' = [logqueue EXCEPT ![c] =
                       Append(@, [request |-> mw.request, response |-> mw.response])]
    /\ mw' = [mw EXCEPT !.pc = IF mw.pc = "returning" THEN "returned" ELSE "raised",
                        !.exc = mw.apperr]
    /\ MwFrame

\* ------------------------------------------------------------------- Next
Next ==
    \/ \E c \in Single : Start(c)
    \/ \E c \in Single : StartReady(c)
    \/ \E c \in Single : StartTimedOut(c)
    \/ \E c \in Single : Stop(c)
    \/ \E c \in Single : StopJoined(c)
    \/ \E c \in Single : StopTimedOut(c)
    \/ \E c \in Single : Log(c)
    \/ \E c \in Single : Enter(c)
    \/ Exit
    \/ BodyRaise
    \/ \E t \in ThreadIds : RunnerBind(t)
    \/ \E t \in ThreadIds : RunnerReady(t)
    \/ \E t \in ThreadIds : RunnerSelect(t)
    \/ \E t \in ThreadIds : RunnerEINTR(t)
    \/ \E t \in ThreadIds : RunnerSelectError(t)
    \/ \E t \in ThreadIds : RunnerApp(t)
    \/ \E t \in ThreadIds : RunnerRespond(t)
    \/ \E t \in ThreadIds : RunnerClose(t)
    \/ \E c \in Single : ClientSend(c)
    \/ \E t \in ThreadIds : EnvRace(t)

Spec == Init /\ [][Next]_vars

\* the steps a runner thread takes by itself: the thread is scheduled, select
\* returns when a descriptor is ready, the handler and the request handler
\* terminate
RunnerStep(t) ==
    /\ t \in ThreadIds
    /\ \/ RunnerBind(t)
       \/ RunnerReady(t)
       \/ RunnerSelect(t)
       \/ RunnerApp(t)
       \/ RunnerRespond(t)
       \/ RunnerClose(t)

SpecFair == Spec /\ \A t \in 1 .. MaxThreads : WF_vars(RunnerStep(t))

\* two controllers with the same host and starting port, used through
\* with-blocks, no other process taking ports
InitNested == Init /\ envBound = {}

\* the body of a with-block sends a request to the url() of a controller
\* whose with-block it is in
NestedSend(c) == CanCall /\ InScope(c) /\ ClientSend(c)

NextNested ==
    \/ \E c \in Ctrl : Enter(c)
    \/ \E c \in Ctrl : StartReady(c)
    \/ \E c \in Ctrl : StartTimedOut(c)
    \/ Exit
    \/ \E c \in Ctrl : StopJoined(c)
    \/ \E c \in Ctrl : StopTimedOut(c)
    \/ \E c \in Ctrl : Log(c)
    \/ \E t \in ThreadIds : RunnerBind(t)
    \/ \E t \in ThreadIds : RunnerReady(t)
    \/ \E t \in ThreadIds : RunnerSelect(t)
    \/ \E t \in ThreadIds : RunnerApp(t)
    \/ \E t \in ThreadIds : RunnerRespond(t)
    \/ \E t \in ThreadIds : RunnerClose(t)
    \/ \E c \in Ctrl : NestedSend(c)

SpecNested == InitNested /\ [][NextNested]_vars

\* one invocation of the wrapper, by the transport of the one controller
InitMW == Init /\ envBound = {}

NextMW ==
    \/ \E e \in Environs : MwCall(e)
    \/ \E status \in Statuses, hdrs \in SeqsUpTo(HdrPairs, MaxHdrs) :
           MwStartResponse(status, hdrs)
    \/ \E data \in Chunks : MwWrite(data)
    \/ \E out \in SeqsUpTo(Chunks, MaxOut) : MwAppReturn(out)
    \/ \E e \in AppErrors : MwAppRaise(e)
    \/ \E c \in Single : MwFinally(c)

SpecMW == InitMW /\ [][NextMW]_vars

\* ------------------------------------------------------------- the claims
\* the steps of the caller, told from the runners' and the clients' by what
\* they change
StartOps == {"start", "enter"}
StopOps == {"stop", "exit"}

\* this step is a call of start() on c, or of __enter__
StartCalled(c) ==
    /\ cpc = Idle
    /\ \/ cpc' # Idle /\ cpc'.op \in StartOps /\ cpc'.ctrl = c
       \/ cpc' = Idle /\ ret' # ret /\ ret'.op \in StartOps /\ ret'.ctrl = c

\* this step is a call of stop() on c, or of __exit__
StopCalled(c) ==
    /\ cpc = Idle
    /\ \/ cpc' # Idle /\ cpc'.op \in StopOps /\ cpc'.ctrl = c
       \/ cpc' = Idle /\ ret' # ret /\ ret'.op \in StopOps /\ ret'.ctrl = c

\* in this step a start() on c returns without raising
StartReturnsOk(c) ==
    /\ cpc' = Idle
    /\ ret'.op \in StartOps /\ ret'.ctrl = c /\ ret'.result = Ok
    /\ cpc # Idle \/ ret' # ret

\* in this step a log() on c returns
LogReturns(c) ==
    /\ cpc = Idle /\ cpc' = Idle
    /\ ret'.op = "log" /\ ret'.ctrl = c
    /\ ret' # ret \/ log'[c] # log[c]

\* c's runner is alive and listens on the port url() reports
RunnerListeningAt(c) ==
    /\ httpd[c] # None
    /\ IsAlive(httpd[c])
    /\ Listening(httpd[c])
    /\ threads[httpd[c]].port = url(c)[4]

\* the runners of c that are alive
AliveRunners(c) == {t \in ThreadIds : threads[t].ctrl = c /\ IsAlive(t)}

Free == Ports \ Busy

MinPort(S) == CHOOSE p \in S : \A q \in S : p <= q

\* the requests of the exchanges of a log, in the log's order
LogReqs(l) == [i \in 1 .. Len(l) |-> l[i].req]

\* the requests that runners of c answered, in send order
Served(c) ==
    SelectSeq([i \in 1 .. Len(reqs) |-> i],
              LAMBDA i : /\ reqs[i].status = "answered"
                         /\ threads[reqs[i].by].ctrl = c)

\* C1: every start() that returns without raising (a first start, a start
\* while running, a start after a failed start) leaves a live runner whose
\* socket is bound on the port url() reports, and the ready event is set
\* only by a runner that has bound its socket.
C1_StartReturnsListening ==
    /\ [][\A c \in Ctrl : StartReturnsOk(c) => RunnerListeningAt(c)']_vars
    /\ [](\A t \in ThreadIds : threads[t].ready => threads[t].pc # "init")

\* C2: log() called after stop() has returned yields exactly the requests
\* the server answered, each once, in send order.
C2_LogAfterStop ==
    \A c \in Ctrl :
        (cpc = Idle /\ ret = [op |-> "log", ctrl |-> c, result |-> Ok]
            /\ httpd[c] = None)
        => LogReqs(log[c]) = Served(c)

\* C2 witness: log() after stop() has returned both answered requests
C2_Witness ==
    \E c \in Ctrl :
        /\ cpc = Idle /\ ret = [op |-> "log", ctrl |-> c, result |-> Ok]
        /\ httpd[c] = None
        /\ Len(Served(c)) = 2
        /\ Len(log[c]) = 2

\* C3: when every port of [startport, startport+100) is unavailable,
\* start() fails with NoAvailablePort and launches nothing: no runner
\* thread, no stop pipe.
C3_NoAvailablePort ==
    [][\A c \in Ctrl :
         (StartCalled(c) /\ httpd[c] = None /\ Free = {})
         => /\ cpc' = Idle
            /\ ret'.result = "NoAvailablePort"
            /\ httpd'[c] = None
            /\ stoppipe'[c] = None
            /\ threads' = threads
            /\ pipes' = pipes]_vars

\* C4: start() on a stopped controller gives the runner the lowest port of
\* the range whose trial bind succeeds, and url() reports that port.
C4_FirstFreePort ==
    [][\A c \in Ctrl :
         (StartCalled(c) /\ httpd[c] = None /\ Free # {})
         => /\ httpd'[c] # None
            /\ threads'[httpd'[c]].port = MinPort(Free)
            /\ url(c)' = <<"http://", Host, ":", MinPort(Free), "/">>]_vars

\* C4 witness: the start port is held by another process and the server
\* runs on a later port, which url() reports
C4_Witness ==
    \E c \in Ctrl :
        /\ StartPort \in envBound
        /\ RunnerListeningAt(c)
        /\ url(c)[4] > StartPort
        /\ ret = [op |-> "start", ctrl |-> c, result |-> Ok]

\* C5: a start() whose ready event does not arrive in time raises a
\* condition of its own, and before it raises the half-started runner is
\* terminated: no runner thread, no stop pipe, the controller is stopped.
C5_StartTimeoutCleansUp ==
    [][\A c \in Ctrl :
         (InStart(c) /\ cpc' = Idle /\ ~threads[httpd[c]].ready)
         => /\ ret'.result \notin {Ok, StopTimedOutMsg}
            /\ httpd'[c] = None
            /\ stoppipe'[c] = None
            /\ AliveRunners(c)' = {}]_vars

\* C6: a stop() whose runner does not exit in time raises a condition of
\* its own and leaves no runner of the controller alive.
C6_StopTimeoutNoZombie ==
    [][\A c \in Ctrl :
         (InStop(c) /\ cpc' = Idle /\ IsAlive(httpd[c]))
         => /\ ret'.result \notin {Ok, StartTimedOutMsg}
            /\ AliveRunners(c)' = {}]_vars

\* the controller was never started
NeverStarted(c) == \A t \in ThreadIds : threads[t].ctrl # c

\* the last call was a stop() of c that returned
JustStopped(c) == cpc = Idle /\ ret.op \in StopOps /\ ret.ctrl = c /\ ret.result = Ok

\* C7: a stop() after a stop() that returned, or on a controller never
\* started, raises nothing, writes to no pipe, closes nothing and leaves the
\* controller and the log as they were.
C7_StopIdempotent ==
    [][\A c \in Ctrl :
         (StopCalled(c) /\ (JustStopped(c) \/ NeverStarted(c)))
         => /\ cpc' = Idle
            /\ ret'.result = Ok
            /\ UNCHANGED <<httpd, port, stoppipe, log, logqueue, threads,
                           pipes>>]_vars

\* C7 witness: stop() has returned on a controller that was never started
C7_Witness ==
    \E c \in Ctrl :
        /\ NeverStarted(c)
        /\ c \in Single
        /\ ret = [op |-> "stop", ctrl |-> c, result |-> Ok]

\* C8: start() on a controller that has a runner makes no probe, no pipe
\* and no runner and keeps the port, and url() is constant for as long as
\* the controller has a runner.
C8_StartNoopUrlFixed ==
    [][\A c \in Ctrl :
         /\ (StartCalled(c) /\ httpd[c] # None)
            => /\ cpc' = Idle
               /\ ret'.result = Ok
               /\ UNCHANGED <<httpd, port, stoppipe, threads, pipes>>
         /\ (httpd[c] # None /\ httpd'[c] # None) => url(c)' = url(c)]_vars

\* C8 witness: inside the with-block of a running server, whose only runner
\* is the one __enter__ found or made, a further start() has returned
C8_Witness ==
    \E c \in Ctrl :
        /\ scopes = <<c>>
        /\ Len(threads) = 1
        /\ RunnerListeningAt(c)
        /\ ret = [op |-> "start", ctrl |-> c, result |-> Ok]

\* C9: the body of a with-block runs only after start() has completed, and
\* stop() is attempted on every way out: at the end of the body, on an
\* exception in the body, and when entering failed after the runner had
\* been launched.
C9_ScopeAlwaysStops ==
    [][\A c \in Ctrl :
         /\ (~InScope(c) /\ InScope(c)')
            => ret' = [op |-> "enter", ctrl |-> c, result |-> Ok]
         /\ (InScope(c) /\ ~InScope(c)') => ret'.op = "exit" /\ ret'.ctrl = c
         /\ (cpc # Idle /\ cpc.op = "enter" /\ cpc.ctrl = c /\ cpc' = Idle
                /\ ret'.result # Ok /\ httpd'[c] # None)
            => \/ cpc'.op \in StopOps
               \/ ret'.op \in StopOps]_vars

IsPrefix(l, m) == Len(l) <= Len(m) /\ SubSeq(m, 1, Len(l)) = l

\* C11: log() is idempotent and monotonic: the log never loses, reorders or
\* resets an exchange (in every step the old log is a prefix of the new one,
\* through start() and stop() too), and with nothing on the queue a log()
\* leaves it as it was.
C11_LogMonotonic ==
    [][\A c \in Ctrl :
         /\ IsPrefix(log[c], log'[c])
         /\ logqueue[c] = <<>> => log'[c] = log[c]]_vars

\* C11 witness: a log() has returned a log that holds the exchanges of two
\* start/stop cycles
C11_Witness ==
    \E c \in Ctrl :
        /\ ret = [op |-> "log", ctrl |-> c, result |-> Ok]
        /\ Len(log[c]) = 2
        /\ log[c][1].thread # log[c][2].thread
\* the invocation of the wrapper is over
MwDone == mw.pc \in {"returned", "raised"}

\* C12: every invocation of the wrapped handler puts exactly one exchange on
\* the log queue, whether the handler returns or raises: none is there while
\* the invocation runs, one (with the invocation's request) when it is over;
\* when the handler raised, the exchange is on the queue as the handler's own
\* exception leaves the wrapper, and the wrapper has returned no response
C12_OneExchangePerInvocation ==
    /\ \A c \in Ctrl \ Single : logqueue[c] = <<>>
    /\ \A c \in Single :
        /\ ~MwDone => logqueue[c] = <<>>
        /\ MwDone => /\ Len(logqueue[c]) = 1
                     /\ logqueue[c][1].request = mw.request
    /\ mw.pc = "returned" => mw.exc = "" /\ mw.out # NoneAttr
    /\ mw.pc = "raised" => /\ mw.exc \in AppErrors
                           /\ mw.exc = mw.apperr
                           /\ mw.out = NoneAttr

C12_Witness ==
    /\ mw.pc = "raised"
    /\ MwStarted
    /\ mw.written # <<>>
    /\ Len(logqueue["server1"]) = 1
\* the lower-cased names of the headers the handler passed to start_response
GivenNames == {Lower(mw.given[i][1]) : i \in 1 .. Len(mw.given)}

\* the header list the transport holds has a header of this name and value
SentHas(k, v) ==
    \E i \in 1 .. Len(mw.sent) : Lower(mw.sent[i][1]) = k /\ mw.sent[i][2] = v

\* the response of the exchange the invocation has put on the queue
Recorded == logqueue["server1"][1].response

\* C14: after a normal return, each of date, server and content-length that
\* the handler left out is in the recorded response (content-length being
\* the byte length of the written and the returned chunks together) and, with
\* the same value, in the header list the transport was given; each one the
\* handler did set is recorded as the handler set it
C14_InjectedHeadersAgree ==
    mw.pc = "returned" =>
        \A k \in {"date", "server", "content-length"} :
            LET h == Recorded.headers[1]
            IN  /\ k \in DOMAIN h
                /\ IF k \in GivenNames
                   THEN h[k] = FoldHeaders(mw.given, EmptyDict)[k]
                   ELSE /\ k = "content-length" =>
                               h[k] = Str(Len(Join(mw.written) \o Join(mw.out[1])))
                        /\ SentHas(k, h[k])
\* C19: when the handler raised after it had called start_response, the
\* response of the recorded exchange carries the status and the headers
\* (lower-cased, with date and server injected), not absent values; when it
\* raised before, the recorded response is empty and the recorded request is
\* the complete request of the environ
C19_PartialResponseRecorded ==
    mw.pc = "raised" =>
        /\ logqueue["server1"] # <<>>
        /\ IF MwStarted
           THEN /\ Recorded.status # NoneAttr
                /\ Recorded.headers # NoneAttr
                /\ Recorded.headers[1] = mw.resheaders
                /\ GivenNames \cup {"date", "server"} \subseteq DOMAIN Recorded.headers[1]
           ELSE /\ Recorded = EmptyResponse
                /\ \E e \in Environs :
                       logqueue["server1"][1].request = BuildRequest(e)
\* the runner's listening socket exists: bound and not yet closed
SocketOpen(t) == threads[t].pc \in {"bound", "select", "handle", "respond", "closing"}

\* C15: a controller has at most one live runner thread and at most one
\* bound listening socket at any time, also after start() or stop() timed
\* out and was called again
C15_OneListenerPerController ==
    \A c \in Ctrl :
        /\ Cardinality(AliveRunners(c)) <= 1
        /\ Cardinality({t \in ThreadIds : threads[t].ctrl = c /\ SocketOpen(t)}) <= 1
        /\ \A t \in AliveRunners(c) : httpd[c] = t

C15_Witness ==
    \E c \in Ctrl :
        /\ Len(threads) = 2
        /\ ret = [op |-> "stop", ctrl |-> c, result |-> StopTimedOutMsg]
        /\ AliveRunners(c) = {2}
        /\ SocketOpen(2)
\* this step is the serve loop of runner t accepting a connection
Accepts(t) == threads[t].pc = "select" /\ threads'[t].pc = "handle"

\* C16: once the stop signal is readable on the runner's stop descriptor,
\* the serve loop accepts no connection any more, not even one that is
\* pending in the wait that reports the stop signal
C16_NoAcceptAfterStop ==
    [][\A t \in ThreadIds : Accepts(t) => ~StopReadable(t)]_vars
\* C18: an interrupted select is neither a stop request nor a ready
\* connection: the runner stays in the same wait.  Every step of a runner
\* out of the wait is one of: the retry (nothing but the interrupt noted),
\* the accept of a connection that is pending, the end of the loop with the
\* stop descriptor readable, or another select error leaving the loop as an
\* exception
C18_InterruptedWaitRetried ==
    [][\A t \in ThreadIds :
         (threads[t].pc = "select" /\ threads'[t] # threads[t]) =>
            \/ threads'[t] = [threads[t] EXCEPT !.intr = TRUE]
            \/ /\ threads'[t].pc = "handle"
               /\ threads'[t].conn \in Pending(t)
               /\ threads'[t].err = ""
            \/ /\ threads'[t].pc = "closing"
               /\ threads'[t].sawstop
               /\ StopReadable(t)
               /\ threads'[t].err = ""
            \/ /\ threads'[t].pc = "closing"
               /\ ~threads'[t].sawstop
               /\ threads'[t].err = SelectErrorMsg]_vars

C18_Witness ==
    \E t \in ThreadIds :
        /\ threads[t].pc = "select"
        /\ threads[t].intr
        /\ ~StopReadable(t)
        /\ Pending(t) = {}
        /\ \E i \in 1 .. Len(reqs) : reqs[i].by = t /\ reqs[i].status = "answered"
PipeIds == 1 .. Len(pipes)

\* both ends of the pipe are open
PipeOpen(p) == pipes[p].r /\ pipes[p].w

\* both ends of the pipe are closed
PipeClosed(p) == ~pipes[p].r /\ ~pipes[p].w

\* C20: a controller holds a stop pipe exactly when it holds a runner, the
\* pipe it holds is open at both ends and is the one its runner waits on;
\* every launch creates one pipe, given to the runner launched with it; a
\* pipe is written only while open and closed only once, both ends together,
\* by the stop() that returns normally; stop() never fails on a closed end
C20_StopPipeConsistent ==
    /\ [](/\ \A c \in Ctrl :
               /\ stoppipe[c] = None <=> httpd[c] = None
               /\ stoppipe[c] # None =>
                      /\ PipeOpen(stoppipe[c])
                      /\ threads[httpd[c]].stopfd = stoppipe[c]
                      /\ threads[httpd[c]].ctrl = c
          /\ Len(pipes) = Len(threads)
          /\ \A t \in ThreadIds : threads[t].stopfd = t
          /\ \A p \in PipeIds :
               /\ PipeOpen(p) \/ PipeClosed(p)
               /\ PipeOpen(p) => \E c \in Ctrl : stoppipe[c] = p
          /\ ret.result # BadFdMsg)
    /\ [][/\ \A p \in PipeIds : pipes'[p] # pipes[p] =>
                 /\ PipeOpen(p)
                 /\ \/ pipes'[p] = [pipes[p] EXCEPT !.readable = TRUE]
                    \/ /\ pipes'[p] = [pipes[p] EXCEPT !.r = FALSE, !.w = FALSE]
                       /\ \E c \in Ctrl : /\ stoppipe[c] = p
                                          /\ stoppipe'[c] = None
                                          /\ ret' = [op |-> cpc.op, ctrl |-> c,
                                                     result |-> Ok]
          /\ Len(pipes') \in {Len(pipes), Len(pipes) + 1}
          /\ Len(pipes') = Len(pipes) + 1 <=> Len(threads') = Len(threads) + 1]_vars

C20_Witness ==
    \E c \in Ctrl :
        /\ cpc = Idle
        /\ Len(pipes) = 2
        /\ PipeClosed(1)
        /\ PipeOpen(2)
        /\ stoppipe[c] = 2
        /\ httpd[c] = 2
        /\ pipes[2].readable
\* C17: once the stop byte is in a runner's pipe, the runner eventually
\* ends, whatever it was doing when the byte was written (not yet waiting,
\* handling a request, waiting), and a runner that has a listening socket
\* ends only through the server_close() of _makeserver's finally
C17_StopSignalEndsRunner ==
    /\ \A t \in 1 .. MaxThreads :
           (t \in ThreadIds /\ StopReadable(t)) ~>
               (t \in ThreadIds /\ threads[t].pc = "dead")
    /\ [][\A t \in ThreadIds :
            (SocketOpen(t) /\ threads'[t].pc = "dead") =>
                threads[t].pc = "closing"]_vars

C17_Witness ==
    \E t \in ThreadIds :
        /\ threads[t].pc = "dead"
        /\ threads[t].sawstop
        /\ StopReadable(t)
        /\ \E i \in 1 .. Len(reqs) : reqs[i].by = t /\ reqs[i].status = "answered"
        /\ ret.op \in StopOps /\ ret.result = StopTimedOutMsg
\* the exchanges a controller holds: its log and what log() would still drain
Exchanges(c) == log[c] \o logqueue[c]

\* C13: with both controllers inside their with-blocks (each start() has
\* returned, neither is stopped), both runners listen, on distinct ports;
\* every request is served by the runner of the controller whose url() it
\* was sent to, and every exchange is held by that controller only
C13_NestedControllers ==
    /\ \A c1, c2 \in Ctrl :
           (c1 # c2 /\ cpc = Idle /\ InScope(c1) /\ InScope(c2)) =>
               /\ port[c1] # port[c2]
               /\ RunnerListeningAt(c1)
               /\ RunnerListeningAt(c2)
    /\ \A i \in 1 .. Len(reqs) :
           reqs[i].by # 0 => threads[reqs[i].by].ctrl = reqs[i].url
    /\ \A c \in Ctrl : \A i \in 1 .. Len(Exchanges(c)) :
           reqs[Exchanges(c)[i].req].url = c
====
